---- MODULE Spec2Model ----
(***************************************************************************)
(* Model of run_screener (src/screener.py): the per-symbol pipeline        *)
(* (history checks, scalar extraction, SMA20/SMA50, Wilder RSI, the        *)
(* bullish/bearish rules) and the final sort by volume and truncation.     *)
(*                                                                         *)
(* Numbers.  Closes are integers in units of 1/10000 dollar and always     *)
(* whole cents, so the 20- and 50-bar means are exact integers and the     *)
(* comparisons against sma20 * 1.01, sma20 * 0.99 and sma50 are exact.     *)
(* The exponentially weighted averages of gains and losses are kept in     *)
(* fixed point (AvgScale sub-units per price unit), rounded up so that a   *)
(* positive average never reaches zero, as it does not in float64 over a   *)
(* two-year history.  A float64 result that is not a finite number is      *)
(* kept as such: a value is a record [k, v] with k one of "num", "nan",    *)
(* "ninf", and every comparison with "nan" is false, as in IEEE 754.       *)
(***************************************************************************)
EXTENDS Integers, Sequences, FiniteSets, TLC

VARIABLES tickers, data, idx, bullish_candidates, bearish_candidates,
          computed, pc, result

vars == <<tickers, data, idx, bullish_candidates, bearish_candidates,
          computed, pc, result>>

----------------------------------------------------------------------------
(* Program constants *)

MinBars == 200
Sma20Window == 20
Sma50Window == 50
Com == 13
TopN == 20

(* Model bounds *)

MaxVol == 3

(* Units *)

Cent == 10 * 10              \* price units per cent
Dollar == Cent * 100         \* price units per dollar
AvgScale == 10 * 10          \* fixed-point sub-units of the smoothed averages
RsScale == 10 * 100          \* fixed-point sub-units of rs
RsiScale == 10 * 10          \* fixed-point sub-units of the RSI

Num(v) == [k |-> "num", v |-> v]
NaN == [k |-> "nan", v |-> 0]
NegInf == [k |-> "ninf", v |-> 0]

CeilDiv(a, b) == (a + b - 1) \div b

----------------------------------------------------------------------------
(* The close series of the histories the download can deliver.  A shape    *)
(* gives the close, in cents, k bars before the last bar.                  *)

ShapeCents(shape, k) ==
  CASE shape = "flat"         -> 4900
    [] shape = "rise"         -> 4900 - k
    [] shape = "rise_hi"      -> 6000 - k
    [] shape = "fall"         -> 4900 + k
    [] shape = "fall_hi"      -> 6000 + k
    [] shape = "zig_up"       -> 4900 - 2 * (k \div 2) - 10 * (k % 2)
    [] shape = "zig_down"     -> 4900 + 2 * (k \div 2) + 10 * (k % 2)
    [] shape = "crash"        -> 4000 + 10 * k
    [] shape = "spike"        -> 4900 - 10 * k
    [] shape = "jump_fade"    -> IF k > 40 THEN 4800 ELSE 4800 + 150 - (40 - k)
    [] shape = "drop_recover" -> IF k > 40 THEN 4800 ELSE 4800 - 150 + (40 - k)
    [] shape = "pivot"        -> IF k < 2 THEN 4900
                                 ELSE IF k % 2 = 1 THEN 4910 ELSE 4890

Shapes == {"flat", "rise", "rise_hi", "fall", "fall_hi", "zig_up", "zig_down",
           "crash", "spike", "jump_fade", "drop_recover", "pivot"}

\* df['Close'] of a frame descriptor d: n bars, oldest first
CloseOf(d) == [i \in 1..d.n |-> ShapeCents(d.shape, d.n - i) * Cent]

----------------------------------------------------------------------------
(* Indicators *)

RECURSIVE SumRange(_, _, _)
SumRange(s, from, to) ==
  IF from > to THEN 0 ELSE s[from] + SumRange(s, from + 1, to)

\* df['Close'].rolling(window=w).mean().iloc[-1]
RollingMeanLast(s, w) == SumRange(s, Len(s) - w + 1, Len(s)) \div w

\* delta = df['Close'].diff(); the first entry is NaN
\* gain = delta.where(delta > 0, 0): NaN > 0 is false, so the first gain is 0
Gain(s, i) == IF i > 1 /\ s[i] - s[i - 1] > 0 THEN s[i] - s[i - 1] ELSE 0
\* loss = -delta.where(delta < 0, 0)
Loss(s, i) == IF i > 1 /\ s[i] - s[i - 1] < 0 THEN -(s[i] - s[i - 1]) ELSE 0

\* one step of ewm(com=13, adjust=False).mean(): alpha = 1 / (1 + com);
\* pandas leaves the average alone when the observation equals it
EwmStep(weighted, cur) ==
  IF weighted = cur * AvgScale THEN weighted
  ELSE CeilDiv(Com * weighted + cur * AvgScale, Com + 1)

\* the average after entries from..to of a column, from the average before
\* them; pandas updates the average only while it is a number
\* (weighted == weighted)
RECURSIVE EwmRun(_, _, _, _, _)
EwmRun(s, from, to, weighted, isGain) ==
  IF from > to \/ weighted # weighted THEN weighted
  ELSE EwmRun(s, from + 1, to,
              EwmStep(weighted, IF isGain THEN Gain(s, from) ELSE Loss(s, from)),
              isGain)

\* the same over the whole history, entry by entry, taken in runs of Com + 1
\* entries (the grouping changes nothing: each entry is one EwmStep)
RECURSIVE EwmFrom(_, _, _, _, _)
EwmFrom(s, n, from, weighted, isGain) ==
  IF from > n \/ weighted # weighted THEN weighted
  ELSE LET to == IF from + Com > n THEN n ELSE from + Com
       IN  EwmFrom(s, n, to + 1, EwmRun(s, from, to, weighted, isGain), isGain)

\* avg_gain.iloc[-1] and avg_loss.iloc[-1]; the average starts at the first entry
AvgGainLast(s) == EwmFrom(s, Len(s), 2, Gain(s, 1) * AvgScale, TRUE)
AvgLossLast(s) == EwmFrom(s, Len(s), 2, Loss(s, 1) * AvgScale, FALSE)

\* rs = avg_gain / avg_loss in float64: every loss entry that is not a loss is
\* -0.0, so a zero average loss is -0.0, and x / -0.0 is -inf, 0 / -0.0 is nan
Rs(avg_gain, avg_loss) ==
  IF avg_loss = 0
  THEN IF avg_gain = 0 THEN NaN ELSE NegInf
  ELSE Num((avg_gain * RsScale) \div avg_loss)

\* rsi = 100 - (100 / (1 + rs)): 100 / -inf is -0.0 and 100 - -0.0 is 100
Rsi(rs) ==
  CASE rs.k = "nan"  -> NaN
    [] rs.k = "ninf" -> Num(100 * RsiScale)
    [] OTHER -> Num(100 * RsiScale - (100 * RsScale * RsiScale) \div (RsScale + rs.v))

----------------------------------------------------------------------------
(* What the download can deliver for one symbol.  A frame descriptor is    *)
(* [kind, n, shape, vol, cell]: kind "empty" is an empty frame; cell says  *)
(* how the cells of the frame arrive: "scalar", "series" (a duplicated     *)
(* column: every cell is a one-element Series), "bad" (the last cell is    *)
(* not convertible by float()) or "text" (numeric strings: float() accepts *)
(* them, rolling().mean() raises).  Absent stands for a symbol that is no  *)
(* column group of the downloaded table at all.                            *)

Frame(n, shape, vol, cell) ==
  [kind |-> "frame", n |-> n, shape |-> shape, vol |-> vol, cell |-> cell]

EmptyFrame == [kind |-> "empty", n |-> 0, shape |-> "flat", vol |-> 0, cell |-> "scalar"]

Absent == [kind |-> "absent", n |-> 0, shape |-> "flat", vol |-> 0, cell |-> "scalar"]

Vols == 1..MaxVol

FullFrames ==
  {Frame(MinBars, sh, v, "scalar") : sh \in {"rise", "fall"}, v \in Vols}
  \cup {Frame(MinBars, sh, 1, "scalar") : sh \in Shapes \ {"rise", "fall"}}
  \cup {Frame(MinBars, "zig_up", 2, "series"), Frame(MinBars + 1, "zig_down", 2, "series")}

ShortFrames == {Frame(MinBars - 1, "rise", 2, "scalar"), Frame(1, "fall", 1, "scalar")}

BrokenFrames == {Frame(MinBars, "rise", 2, "bad"), Frame(MinBars, "fall", 2, "text")}

\* the choices for a symbol of a small universe
FreeChoices == {Absent, EmptyFrame} \cup FullFrames \cup ShortFrames \cup BrokenFrames

\* the choices for the first symbols of a universe of more than TopN symbols
RankChoices ==
  {Absent, Frame(MinBars, "fall", 1, "text"), Frame(MinBars, "fall", 1, "scalar")}
  \cup {Frame(MinBars, "rise", v, "scalar") : v \in Vols}

FreeTickers == {1, 2}
FillTickers == {t + Cardinality(FreeTickers) : t \in 1..TopN}

\* the other symbols of such a universe all match one rule
FillPatterns == {"bull_tied", "bull_distinct", "bear_tied"}

FillFrame(pattern, t) ==
  CASE pattern = "bull_tied"     -> Frame(MinBars, "rise", 2, "scalar")
    [] pattern = "bull_distinct" -> Frame(MinBars, "rise", 2 * (t - Cardinality(FreeTickers)), "scalar")
    [] pattern = "bear_tied"     -> Frame(MinBars, "fall", 2, "scalar")

AllFrames ==
  FullFrames \cup ShortFrames \cup BrokenFrames \cup (RankChoices \ {Absent})
  \cup {FillFrame(p, t) : p \in FillPatterns, t \in FillTickers}

RECURSIVE Ascending(_, _)
Ascending(lo, hi) == IF lo > hi THEN <<>> ELSE <<lo>> \o Ascending(lo + 1, hi)

Reverse(s) == [i \in 1..Len(s) |-> s[Len(s) + 1 - i]]

\* the symbol lists get_sp500_tickers can return: distinct symbols, in either order
TickerLists ==
  LET small == Ascending(1, Cardinality(FreeTickers))
      large == Ascending(1, Cardinality(FreeTickers) + TopN)
  IN  {small, Reverse(small), large, Reverse(large)}

Range(s) == {s[i] : i \in 1..Len(s)}

\* the tables yf.download can return for a symbol list
Tables(ts) ==
  LET choices == IF Len(ts) > TopN THEN RankChoices ELSE FreeChoices
      free == [FreeTickers -> choices]
      present(f) == {t \in FreeTickers : f[t] # Absent}
  IN  IF Len(ts) > TopN
      THEN {[t \in present(f) \cup FillTickers |->
               IF t \in FreeTickers THEN f[t] ELSE FillFrame(p, t)] :
             f \in free, p \in FillPatterns}
      ELSE {[t \in present(f) |-> f[t]] : f \in free}

----------------------------------------------------------------------------
(* The per-symbol pipeline *)

\* a cell of the last row: a scalar, or a one-element Series
LastCell(df, v) ==
  IF df.cell = "series" THEN [isSeries |-> TRUE, items |-> <<v>>]
  ELSE [isSeries |-> FALSE, value |-> v]

\* float(x.iloc[0]) if isinstance(x, pd.Series) else float(x)
ToFloat(x) == IF x.isSeries THEN x.items[1] ELSE x.value

\* ticker not in data or data[ticker].empty
Missing(ticker) == ticker \notin DOMAIN data \/ data[ticker].kind = "empty"

\* the length check one bar too low
TooShortOffByOne(df) == df.n < MinBars - 1

\* len(df) < 200
TooShort(df) == df.n < MinBars

\* the extraction of the last close and volume raises
ExtractionRaises(df) == df.cell = "bad"

\* the indicator computation raises
IndicatorsRaise(df) == df.cell = "text"

\* the values of lines 76-111 for a frame whose cells are numbers
Indicators(df) ==
  LET close == CloseOf(df)
      avg_gain == AvgGainLast(close)
      avg_loss == AvgLossLast(close)
  IN  [price |-> ToFloat(LastCell(df, close[df.n])),
       volume |-> ToFloat(LastCell(df, df.vol)),
       sma20 |-> ToFloat(LastCell(df, RollingMeanLast(close, Sma20Window))),
       sma50 |-> ToFloat(LastCell(df, RollingMeanLast(close, Sma50Window))),
       avg_gain |-> avg_gain,
       avg_loss |-> avg_loss,
       rsi |-> ToFloat(LastCell(df, Rsi(Rs(avg_gain, avg_loss))))]

\* Indicators, computed once per frame
IndicatorTable ==
  {<<df, Indicators(df)>> : df \in {f \in AllFrames : f.n >= Sma50Window /\ f.cell \in {"scalar", "series"}}}

Snapshot(df) == (CHOOSE p \in IndicatorTable : p[1] = df)[2]

\* float comparisons: false when the left side is not a number
Greater(x, n) == x.k = "num" /\ x.v > n * RsiScale
Less(x, n) == x.k = "num" /\ x.v < n * RsiScale

\* the bullish rule without the 1% band
BullRuleNoBand(snap) ==
  /\ snap.rsi.k = "num" /\ snap.rsi.v > 40 * RsiScale
  /\ snap.price < snap.sma20
  /\ snap.price > snap.sma50

\* (current_rsi > 40) and (current_price < sma20 * 1.01) and (current_price > sma50)
BullRule(snap) ==
  /\ Greater(snap.rsi, 40)
  /\ snap.price * 100 < snap.sma20 * 101
  /\ snap.price > snap.sma50

\* the bearish rule without the 1% band
BearRuleNoBand(snap) ==
  /\ snap.rsi.k = "num" /\ snap.rsi.v < 60 * RsiScale
  /\ snap.price > snap.sma20
  /\ snap.price < snap.sma50

\* the bearish rule without the test against sma50
BearRuleNoTrend(snap) ==
  /\ snap.rsi.k = "num" /\ snap.rsi.v < 60 * RsiScale
  /\ snap.price * 100 > snap.sma20 * 99

\* (current_rsi < 60) and (current_price > sma20 * 0.99) and (current_price < sma50)
BearRule(snap) ==
  /\ Less(snap.rsi, 60)
  /\ snap.price * 100 > snap.sma20 * 99
  /\ snap.price < snap.sma50

Candidate(ticker, snap, setup) ==
  [Ticker |-> ticker, Price |-> snap.price, Vol |-> snap.volume,
   RSI |-> snap.rsi, Setup |-> setup]

\* how one pass of the loop body ends for a symbol
Outcome(ticker) ==
  IF Missing(ticker) THEN "missing"
  ELSE IF TooShort(data[ticker]) THEN "short"
  ELSE IF ExtractionRaises(data[ticker]) THEN "malformed"
  ELSE IF IndicatorsRaise(data[ticker]) THEN "raised"
  ELSE "classified"

\* an exception that ends the loop
AbortLoop(i) == Len(tickers) + 1

\* except Exception: continue
AfterException(i) == i + 1

----------------------------------------------------------------------------
(* Ranking *)

\* a sort that turns the order of equal volumes around
PlaceOfTiesReversed(list, i) ==
  Cardinality({j \in 1..Len(list) : list[j].Vol > list[i].Vol})
  + Cardinality({j \in (i + 1)..Len(list) : list[j].Vol = list[i].Vol}) + 1

\* the place of list[i] after the sort: behind every candidate of greater
\* volume and behind the candidates of equal volume that precede it in list
\* (the sort is stable, also with reverse=True)
PlaceOf(list, i) ==
  Cardinality({j \in 1..Len(list) : list[j].Vol > list[i].Vol})
  + Cardinality({j \in 1..(i - 1) : list[j].Vol = list[i].Vol}) + 1

\* no sort at all
NoSort(list) == list

\* a sort without reverse=True: smallest volume first
SortByVolAscending(list) ==
  [k \in 1..Len(list) |->
     list[CHOOSE i \in 1..Len(list) :
            Cardinality({j \in 1..Len(list) : list[j].Vol < list[i].Vol})
            + Cardinality({j \in 1..(i - 1) : list[j].Vol = list[i].Vol}) + 1 = k]]

\* list.sort(key=lambda x: x['Vol'], reverse=True)
SortByVol(list) ==
  [k \in 1..Len(list) |-> list[CHOOSE i \in 1..Len(list) : PlaceOf(list, i) = k]]

\* list[:n]
Truncate(list, n) == SubSeq(list, 1, IF Len(list) < n THEN Len(list) ELSE n)

\* the rank step on one list
Rank(list, n) == Truncate(SortByVol(list), n)

----------------------------------------------------------------------------
(* run_screener *)

NoResult == <<<<>>, <<>>>>

Init ==
  /\ tickers = <<>>
  /\ data = <<>>
  /\ idx = 1
  /\ bullish_candidates = <<>>
  /\ bearish_candidates = <<>>
  /\ computed = {}
  /\ pc = "start"
  /\ result = NoResult

\* get_sp500_tickers returned nothing: return [], []
NoTickers ==
  /\ pc = "start"
  /\ pc' = "done"
  /\ result' = <<<<>>, <<>>>>
  /\ UNCHANGED <<tickers, data, idx, bullish_candidates, bearish_candidates, computed>>

FetchTickers ==
  /\ pc = "start"
  /\ \E ts \in TickerLists : tickers' = ts
  /\ pc' = "download"
  /\ UNCHANGED <<data, idx, bullish_candidates, bearish_candidates, computed, result>>

\* yf.download raised: return [], []
DownloadFails ==
  /\ pc = "download"
  /\ pc' = "done"
  /\ result' = <<<<>>, <<>>>>
  /\ UNCHANGED <<tickers, data, idx, bullish_candidates, bearish_candidates, computed>>

Download ==
  /\ pc = "download"
  /\ \E d \in Tables(tickers) : data' = d
  /\ pc' = "loop"
  /\ UNCHANGED <<tickers, idx, bullish_candidates, bearish_candidates, computed, result>>

\* one pass of the loop over tickers
ProcessSymbol ==
  /\ pc = "loop"
  /\ idx <= Len(tickers)
  /\ LET ticker == tickers[idx]
         outcome == Outcome(ticker)
     IN  IF outcome = "classified"
         THEN LET snap == Snapshot(data[ticker])
              IN  /\ bullish_candidates' =
                       IF BullRule(snap)
                       THEN Append(bullish_candidates, Candidate(ticker, snap, "Bull"))
                       ELSE bullish_candidates
                  /\ bearish_candidates' =
                       IF BearRule(snap)
                       THEN Append(bearish_candidates, Candidate(ticker, snap, "Bear"))
                       ELSE bearish_candidates
                  /\ computed' = computed \cup {ticker}
                  /\ idx' = idx + 1
         ELSE /\ idx' = IF outcome = "raised" THEN AfterException(idx) ELSE idx + 1
              /\ UNCHANGED <<bullish_candidates, bearish_candidates, computed>>
  /\ UNCHANGED <<tickers, data, pc, result>>

\* both sorts and the return of the first 20 of each list
SortAndReturn ==
  /\ pc = "loop"
  /\ idx > Len(tickers)
  /\ LET bulls == SortByVol(bullish_candidates)
         bears == SortByVol(bearish_candidates)
     IN  /\ bullish_candidates' = bulls
         /\ bearish_candidates' = bears
         /\ result' = <<Truncate(bulls, TopN), Truncate(bears, TopN)>>
  /\ pc' = "done"
  /\ UNCHANGED <<tickers, data, idx, computed>>

Next ==
  \/ NoTickers
  \/ FetchTickers
  \/ DownloadFails
  \/ Download
  \/ ProcessSymbol
  \/ SortAndReturn

Spec == Init /\ [][Next]_vars

\* run_screener is sequential code over a finite list: it runs to its return
FairSpec == Spec /\ WF_vars(Next)

----------------------------------------------------------------------------
(* Vocabulary of the properties *)

InList(list, t) == \E i \in 1..Len(list) : list[i].Ticker = t

Processed == {tickers[i] : i \in 1..(idx - 1)}

\* the symbol has a frame of at least 200 bars whose cells are numbers
WellFormed(t) ==
  /\ t \in DOMAIN data
  /\ data[t].kind = "frame"
  /\ data[t].n >= MinBars
  /\ data[t].cell \in {"scalar", "series"}

\* absent, empty or fewer than 200 bars
Unavailable(t) ==
  \/ t \notin DOMAIN data
  \/ data[t].kind = "empty"
  \/ data[t].n < MinBars

Failing(t) == Unavailable(t) \/ data[t].cell \in {"bad", "text"}

SnapOf(t) == Snapshot(data[t])

RsiAbove(snap, n) == snap.rsi.k = "num" /\ snap.rsi.v > n * RsiScale
RsiBelow(snap, n) == snap.rsi.k = "num" /\ snap.rsi.v < n * RsiScale

NonIncreasing(list) ==
  \A i \in 1..Len(list) : \A j \in 1..Len(list) : i < j => list[i].Vol >= list[j].Vol

DistinctVols(list) ==
  \A i \in 1..Len(list) : \A j \in 1..Len(list) : i # j => list[i].Vol # list[j].Vol

MinOf(a, b) == IF a < b THEN a ELSE b

\* the candidates of one setup a run over ts collects, in the order of ts
RECURSIVE Collected(_, _, _, _)
Collected(ts, i, setup, acc) ==
  IF i > Len(ts) THEN acc
  ELSE LET t == ts[i]
           hit == /\ Outcome(t) = "classified"
                  /\ IF setup = "Bull" THEN BullRule(SnapOf(t)) ELSE BearRule(SnapOf(t))
       IN  Collected(ts, i + 1, setup,
                     IF hit THEN Append(acc, Candidate(t, SnapOf(t), setup)) ELSE acc)

\* what run_screener returns for the symbol list ts and the downloaded data
ScreenOver(ts) ==
  <<Rank(Collected(ts, 1, "Bull", <<>>), TopN), Rank(Collected(ts, 1, "Bear", <<>>), TopN)>>

\* the same for a list of symbols none of which fails: no check, no handler
RECURSIVE CleanCollected(_, _, _, _)
CleanCollected(ts, i, setup, acc) ==
  IF i > Len(ts) THEN acc
  ELSE LET t == ts[i]
           hit == IF setup = "Bull" THEN BullRule(SnapOf(t)) ELSE BearRule(SnapOf(t))
       IN  CleanCollected(ts, i + 1, setup,
                          IF hit THEN Append(acc, Candidate(t, SnapOf(t), setup)) ELSE acc)

CleanRun(ts) ==
  <<Rank(CleanCollected(ts, 1, "Bull", <<>>), TopN),
    Rank(CleanCollected(ts, 1, "Bear", <<>>), TopN)>>

NotFailing(t) == ~Failing(t)

\* the symbols of the run in ascending order
SortedTickers == Ascending(1, Len(tickers))

----------------------------------------------------------------------------
(* C1: every candidate of the collected and of the returned lists has a    *)
(* price of at most 50: a symbol priced above 50 is never classified.      *)
C1_PriceGate ==
  \A list \in {bullish_candidates, bearish_candidates, result[1], result[2]} :
    \A i \in 1..Len(list) : list[i].Price <= 50 * Dollar

(* C2: a symbol whose history is absent, empty or shorter than 200 bars    *)
(* gets no indicator computed and is in no candidate list, collected or    *)
(* returned, whatever its closes and volumes are.                          *)
C2_ShortHistorySkipped ==
  \A t \in Range(tickers) :
    Unavailable(t) =>
      /\ t \notin computed
      /\ ~InList(bullish_candidates, t) /\ ~InList(bearish_candidates, t)
      /\ ~InList(result[1], t) /\ ~InList(result[2], t)

\* a 199-bar rising history, which matches the bullish rule, has been passed over
C2_Witness ==
  /\ pc = "done"
  /\ \E t \in Range(tickers) :
       /\ t \in DOMAIN data /\ data[t].kind = "frame"
       /\ data[t].n = MinBars - 1 /\ data[t].shape = "rise"
  /\ \E t \in Range(tickers) : t \in computed

(* C3: a processed symbol with at least 200 well-formed bars has a Bull    *)
(* candidate exactly when rsi > 40 and price < sma20 * 1.01 and            *)
(* price > sma50 on its latest snapshot.                                   *)
C3_BullIff ==
  \A t \in Processed :
    WellFormed(t) =>
      (InList(bullish_candidates, t) <=>
         /\ RsiAbove(SnapOf(t), 40)
         /\ SnapOf(t).price * 100 < SnapOf(t).sma20 * 101
         /\ SnapOf(t).price > SnapOf(t).sma50)

\* a Bull whose price is inside the 1% band above sma20, and a symbol whose
\* price equals sma50 that is no Bull
C3_Witness ==
  /\ \E t \in Processed :
       /\ WellFormed(t) /\ InList(bullish_candidates, t)
       /\ SnapOf(t).price > SnapOf(t).sma20
       /\ SnapOf(t).rsi.v < 60 * RsiScale
  /\ \E t \in Processed :
       /\ WellFormed(t) /\ ~InList(bullish_candidates, t)
       /\ SnapOf(t).price = SnapOf(t).sma50 /\ RsiAbove(SnapOf(t), 40)

(* C4: a processed symbol with at least 200 well-formed bars has a Bear    *)
(* candidate exactly when rsi < 60 and price > sma20 * 0.99 and            *)
(* price < sma50; when neither rule holds it is in neither list.           *)
C4_BearIff ==
  \A t \in Processed :
    WellFormed(t) =>
      LET bull == /\ RsiAbove(SnapOf(t), 40)
                  /\ SnapOf(t).price * 100 < SnapOf(t).sma20 * 101
                  /\ SnapOf(t).price > SnapOf(t).sma50
          bear == /\ RsiBelow(SnapOf(t), 60)
                  /\ SnapOf(t).price * 100 > SnapOf(t).sma20 * 99
                  /\ SnapOf(t).price < SnapOf(t).sma50
      IN  /\ InList(bearish_candidates, t) <=> bear
          /\ (~bull /\ ~bear) =>
               ~InList(bullish_candidates, t) /\ ~InList(bearish_candidates, t)

\* a Bear whose price is inside the 1% band below sma20, and a symbol that
\* matches neither rule
C4_Witness ==
  /\ \E t \in Processed :
       /\ WellFormed(t) /\ InList(bearish_candidates, t)
       /\ SnapOf(t).price < SnapOf(t).sma20
  /\ \E t \in Processed :
       /\ WellFormed(t)
       /\ ~InList(bullish_candidates, t) /\ ~InList(bearish_candidates, t)

(* C5: in every state of a run no ticker is in both candidate lists and no *)
(* ticker is twice in one list.                                            *)
C5_AtMostOneCandidate ==
  /\ \A i \in 1..Len(bullish_candidates) : \A j \in 1..Len(bearish_candidates) :
       bullish_candidates[i].Ticker # bearish_candidates[j].Ticker
  /\ \A list \in {bullish_candidates, bearish_candidates} :
       \A i \in 1..Len(list) : \A j \in 1..Len(list) :
         i # j => list[i].Ticker # list[j].Ticker

\* both lists hold a candidate
C5_Witness ==
  /\ pc = "loop"
  /\ Len(bullish_candidates) > 0
  /\ Len(bearish_candidates) > 0

(* C6: each returned list holds only candidates of its setup, is sorted by *)
(* volume in non-increasing order, has length min(20, candidates of the    *)
(* setup), and leaves out no candidate with a greater volume than one kept.*)
C6_RankResult ==
  pc = "done" =>
    \A s \in 1..2 :
      LET setup == IF s = 1 THEN "Bull" ELSE "Bear"
          all == IF s = 1 THEN bullish_candidates ELSE bearish_candidates
          kept == result[s]
      IN  /\ \A i \in 1..Len(kept) : kept[i].Setup = setup
          /\ NonIncreasing(kept)
          /\ Len(kept) = MinOf(TopN, Len(all))
          /\ \A i \in 1..Len(kept) : InList(all, kept[i].Ticker)
          /\ \A i \in 1..Len(all) :
               ~InList(kept, all[i].Ticker) =>
                 \A j \in 1..Len(kept) : all[i].Vol <= kept[j].Vol

\* more than 20 bullish candidates of several volumes, 20 of them returned
C6_Witness ==
  /\ pc = "done"
  /\ Len(bullish_candidates) > TopN
  /\ Len(result[1]) = TopN
  /\ result[1][1].Vol > result[1][TopN].Vol
  /\ \E i \in 1..Len(bullish_candidates) :
       bullish_candidates[i].Vol < result[1][TopN].Vol

(* C7 as stated: the returned lists are those of the run that processes    *)
(* the same symbols with the same data in ascending order, whatever the    *)
(* order of this run.                                                      *)
C7_OrderIndependent ==
  pc = "done" => result = ScreenOver(SortedTickers)

(* C7 amended: the same, provided no two candidates of the same list have  *)
(* equal volumes.                                                          *)
C7_OrderIndependentDistinctVols ==
  (pc = "done" /\ DistinctVols(bullish_candidates) /\ DistinctVols(bearish_candidates))
    => result = ScreenOver(SortedTickers)

\* a run in descending symbol order with more than 20 bullish candidates,
\* all of different volumes
C7_Witness ==
  /\ pc = "done"
  /\ tickers # SortedTickers
  /\ Len(bullish_candidates) > TopN
  /\ DistinctVols(bullish_candidates)

(* C8: the run returns, and it returns what a run over the symbols that do *)
(* not fail returns; every symbol that does not fail has been processed.   *)
C8_NoFailureFatal ==
  /\ [](pc = "done" =>
          /\ result = CleanRun(SelectSeq(tickers, NotFailing))
          /\ computed = {t \in Range(tickers) : ~Failing(t)})
  /\ <>(pc = "done")

\* a symbol whose indicator computation raises was followed by a symbol that
\* became a candidate
C8_Witness ==
  /\ pc = "done"
  /\ \E i \in 1..Len(tickers) : \E j \in 1..Len(tickers) :
       /\ i < j
       /\ tickers[i] \in DOMAIN data /\ data[tickers[i]].cell = "text"
       /\ data[tickers[i]].n >= MinBars
       /\ InList(result[1], tickers[j])

(* C9: the RSI of a classified symbol is exactly 100 whenever its smoothed *)
(* average loss is 0, and a number in [0, 100] otherwise.                  *)
C9_RsiDefined ==
  \A t \in computed :
    /\ SnapOf(t).avg_loss = 0 => SnapOf(t).rsi = Num(100 * RsiScale)
    /\ SnapOf(t).avg_loss # 0 =>
         /\ SnapOf(t).rsi.k = "num"
         /\ SnapOf(t).rsi.v >= 0 /\ SnapOf(t).rsi.v <= 100 * RsiScale

(* C10: ranking a returned list again, with top_n at least its length,     *)
(* returns it unchanged, candidates of equal volume in the same order.     *)
C10_RankIdempotent ==
  pc = "done" =>
    \A s \in 1..2 : \A n \in {Len(result[s]), Len(result[s]) + 1, TopN} :
      Rank(result[s], n) = result[s]

\* a returned list with candidates of equal volume and of different volumes
C10_Witness ==
  /\ pc = "done"
  /\ \E i \in 1..Len(result[1]) : \E j \in 1..Len(result[1]) :
       i # j /\ result[1][i].Vol = result[1][j].Vol
  /\ \E i \in 1..Len(result[1]) : \E j \in 1..Len(result[1]) :
       result[1][i].Vol # result[1][j].Vol

====
